---- MODULE Spec2Model ----
(***************************************************************************)
(* A model of the CHIP-8 interpreter: the machine state, the opcode        *)
(* decoder perform_instruction, fetch_instruction, update_timers, the key  *)
(* handlers and the run loop.                                              *)
(*                                                                         *)
(* Encodings.  chip.ram is kept sparse: an address outside DOMAIN ram      *)
(* holds 0.  chip.display is the set of lit pixels.  An access outside an  *)
(* array is undefined behaviour: a read yields any value of Garbage8 or    *)
(* Garbage16, a write leaves the modelled arrays alone, and both set the   *)
(* history flag chip.oob.  The run loop keeps the ages of its timestamps   *)
(* (the time elapsed since each was taken) instead of the timestamps.      *)
(***************************************************************************)
EXTENDS Integers, Sequences, FiniteSets, TLC

(* ------------------------------ bounds --------------------------------- *)

\* Byte values drawn for registers are 0..MaxLow and 255-MaxLow..255, plus 127 and 128.
MaxLow == 1
\* Instruction ticks a bounded run may take.
MaxTicks == 20
\* Key flags the input events of a run may touch: the first MaxKeys of KeyOrder.
MaxKeys == 1
\* Milliseconds the host may stall in SDL_Delay, beyond the 1 ms asked for.
MaxStall == 2
\* Host events that may be pending at once.
MaxEvents == 1
\* The most keys held down at once when a key wait is executed.
MaxPressed == 2
\* Instructions executed in the keypad runs.
PadSteps == 2
\* Instruction words of a drawn ROM.
ProgLen == 3

(* --------------------------- program constants ------------------------- *)

RAM_SIZE == 4096
ROM_START == 512
STACK_SIZE == 16
INSTRUCTION_PER_SECOND == 500
RENDER_RATE == 60
cycleDelay == 1000 \div INSTRUCTION_PER_SECOND
renderDelay == 1000 \div RENDER_RATE

U8 == 2^8
U16 == 2^16

Regs == 0..15
Bytes == 0..255

\* Values an out-of-bounds read may produce.
Garbage8 == {0, 255}
Garbage16 == {0, 513, 65535}
\* Bytes the random generator is sampled at.
RandomBytes == {0, 90, 255}

(* ------------------------------ bit helpers ---------------------------- *)

Pow2(i) == CASE i = 0 -> 1 [] i = 1 -> 2 [] i = 2 -> 4 [] i = 3 -> 8
             [] i = 4 -> 16 [] i = 5 -> 32 [] i = 6 -> 64 [] i = 7 -> 128

Bit(a, i) == (a \div Pow2(i)) % 2

FromBits(f) == f[0] + 2 * f[1] + 4 * f[2] + 8 * f[3]
               + 16 * f[4] + 32 * f[5] + 64 * f[6] + 128 * f[7]

BitOr(a, b) == FromBits([i \in 0..7 |-> IF Bit(a, i) + Bit(b, i) > 0 THEN 1 ELSE 0])
BitAnd(a, b) == FromBits([i \in 0..7 |-> Bit(a, i) * Bit(b, i)])
BitXor(a, b) == FromBits([i \in 0..7 |-> (Bit(a, i) + Bit(b, i)) % 2])

(* --------------------------- instruction fields ------------------------ *)

Opcode(instruction) == instruction \div 4096
FieldX(instruction) == (instruction \div 256) % 16
FieldY(instruction) == (instruction \div 16) % 16
FieldN(instruction) == instruction % 16
FieldKK(instruction) == instruction % 256
FieldNNN(instruction) == instruction % 4096

(* ------------------------------ registers ------------------------------ *)

get_value_in_Vreg(regNum, c) ==
    IF regNum < 0 \/ regNum > 15 THEN 255 ELSE c.V[regNum]

put_value_in_Vreg(regNum, value, c) ==
    IF regNum > 15 \/ regNum < 0 THEN c
    ELSE [c EXCEPT !.V = [@ EXCEPT ![regNum] = value % U8]]

(* -------------------------------- memory ------------------------------- *)

\* The byte the sparse array holds at an address inside the bank.
RamAt(ram, addr) == IF addr \in DOMAIN ram THEN ram[addr] ELSE 0

\* chip.ram[addr] read: the values it can yield.
RamRead(c, addr) ==
    IF addr >= 0 /\ addr < RAM_SIZE THEN {RamAt(c.ram, addr)} ELSE Garbage8

\* chip.ram[addr] = value.
RamWrite(c, addr, value) ==
    IF addr >= 0 /\ addr < RAM_SIZE
    THEN [c EXCEPT !.ram = [a \in DOMAIN c.ram \cup {addr} |->
                               IF a = addr THEN value % U8 ELSE c.ram[a]]]
    ELSE [c EXCEPT !.oob = TRUE]

\* The history flag of an access at addr.
Touch(c, addr) ==
    IF addr >= 0 /\ addr < RAM_SIZE THEN c ELSE [c EXCEPT !.oob = TRUE]

(* ------------------------------ keypad --------------------------------- *)

\* The key names of key_state, in the order Fx0A scans them, with the value it stores.
KeyOrder == << <<"1", 1>>, <<"2", 2>>, <<"3", 3>>, <<"Q", 4>>, <<"W", 5>>, <<"E", 6>>,
               <<"A", 7>>, <<"S", 8>>, <<"D", 9>>, <<"Z", 10>>, <<"X", 0>>, <<"C", 11>>,
               <<"4", 12>>, <<"R", 13>>, <<"F", 14>>, <<"V", 15>> >>

KeyNames == {KeyOrder[i][1] : i \in 1..16}

\* Mutant: the digits 4 and C trade keys.
get_key_from_u8_SwapsQ4(value) ==
    CASE value = 1 -> "1" [] value = 2 -> "2" [] value = 3 -> "3" [] value = 4 -> "4"
      [] value = 12 -> "Q" [] value = 5 -> "W" [] value = 6 -> "E" [] value = 13 -> "R"
      [] value = 7 -> "A" [] value = 8 -> "S" [] value = 9 -> "D" [] value = 14 -> "F"
      [] value = 10 -> "Z" [] value = 0 -> "X" [] value = 11 -> "C" [] value = 15 -> "V"
      [] OTHER -> "Unknown"

get_key_from_u8(value) ==
    CASE value = 1 -> "1" [] value = 2 -> "2" [] value = 3 -> "3" [] value = 12 -> "4"
      [] value = 4 -> "Q" [] value = 5 -> "W" [] value = 6 -> "E" [] value = 13 -> "R"
      [] value = 7 -> "A" [] value = 8 -> "S" [] value = 9 -> "D" [] value = 14 -> "F"
      [] value = 10 -> "Z" [] value = 0 -> "X" [] value = 11 -> "C" [] value = 15 -> "V"
      [] OTHER -> "Unknown"

\* key_state[key] read through std::map::operator[]: a missing key is inserted as false.
KeyLookup(keys, key) ==
    IF key \in DOMAIN keys THEN keys
    ELSE [k \in DOMAIN keys \cup {key} |-> IF k = key THEN FALSE ELSE keys[k]]

\* The index in KeyOrder of the first pressed key at or after i, 0 when there is none.
RECURSIVE FirstPressed(_, _)
FirstPressed(keys, i) ==
    IF i > 16 THEN 0
    ELSE IF keys[KeyOrder[i][1]] THEN i
    ELSE FirstPressed(keys, i + 1)

(* ------------------------------- opcodes ------------------------------- *)

\* Mutant: the clear leaves the bottom row.
Op00E0_LeavesBottomRow(c) == [c EXCEPT !.display = {p \in @ : p[2] = 31}]

\* clear_screen(chip.screen)
Op00E0(c) == [c EXCEPT !.display = {}]

\* sp--; pc = stack[sp]
Op00EE(c) ==
    LET sp2 == (c.sp - 1) % U8
    IN IF sp2 < STACK_SIZE
       THEN {[c EXCEPT !.sp = sp2, !.pc = c.stack[sp2]]}
       ELSE {[c EXCEPT !.sp = sp2, !.pc = g, !.oob = TRUE] : g \in Garbage16}

Op1nnn(c, instruction) == [c EXCEPT !.pc = FieldNNN(instruction)]

\* Mutant: the push after the increment, into the slot above.
Op2nnn_PushAbove(c, instruction) ==
    IF c.sp >= 15 THEN c
    ELSE [c EXCEPT !.stack = [@ EXCEPT ![c.sp + 1] = c.pc],
                   !.sp = (c.sp + 1) % U8,
                   !.pc = FieldNNN(instruction)]

\* Mutant: the overflow guard one too high.
Op2nnn_Guard16(c, instruction) ==
    IF c.sp >= 16 THEN c
    ELSE [c EXCEPT !.stack = [@ EXCEPT ![c.sp] = c.pc],
                   !.sp = (c.sp + 1) % U8,
                   !.pc = FieldNNN(instruction)]

Op2nnn(c, instruction) ==
    IF c.sp >= 15 THEN c
    ELSE [c EXCEPT !.stack = [@ EXCEPT ![c.sp] = c.pc],
                   !.sp = (c.sp + 1) % U8,
                   !.pc = FieldNNN(instruction)]

Skip(c) == [c EXCEPT !.pc = (c.pc + 2) % U16]

Op3xkk(c, instruction) ==
    IF FieldKK(instruction) = get_value_in_Vreg(FieldX(instruction), c) THEN Skip(c) ELSE c

\* Mutant: the skip taken only when kk is above Vx.
Op4xkk_SkipsAbove(c, instruction) ==
    IF FieldKK(instruction) > get_value_in_Vreg(FieldX(instruction), c) THEN Skip(c) ELSE c

Op4xkk(c, instruction) ==
    IF FieldKK(instruction) # get_value_in_Vreg(FieldX(instruction), c) THEN Skip(c) ELSE c

Op5xy(c, instruction) ==
    IF get_value_in_Vreg(FieldX(instruction), c) = get_value_in_Vreg(FieldY(instruction), c)
    THEN Skip(c) ELSE c

Op6xkk(c, instruction) == put_value_in_Vreg(FieldX(instruction), FieldKK(instruction), c)

Op7xkk(c, instruction) ==
    LET x == FieldX(instruction)
    IN put_value_in_Vreg(x, (get_value_in_Vreg(x, c) + FieldKK(instruction)) % U8, c)

Op8xy4(c, x, Vx, Vy) ==
    LET sum == Vx + Vy
        result == sum % U8
        carry == IF sum > 255 THEN 1 ELSE 0
    IN put_value_in_Vreg(x, result, put_value_in_Vreg(15, carry, c))

Op8xy5(c, x, Vx, Vy) ==
    LET carry == IF Vx > Vy THEN 1 ELSE 0
    IN put_value_in_Vreg(x, (Vx - Vy) % U8, put_value_in_Vreg(15, carry, c))

Op8xy6(c, x, Vx, Vy) ==
    LET lsb == Vx % 2
    IN put_value_in_Vreg(x, Vx \div 2, put_value_in_Vreg(15, lsb, c))

Op8xy7(c, x, Vx, Vy) ==
    LET carry == IF Vy > Vx THEN 1 ELSE 0
    IN put_value_in_Vreg(x, (Vy - Vx) % U8, put_value_in_Vreg(15, carry, c))

Op8xyE(c, x, Vx, Vy) ==
    LET msb == Vx \div 128
    IN put_value_in_Vreg(x, (Vx * 2) % U8, put_value_in_Vreg(15, msb, c))

Op8xy(c, instruction) ==
    LET finalNib == FieldN(instruction)
        x == FieldX(instruction)
        Vy == get_value_in_Vreg(FieldY(instruction), c)
        Vx == get_value_in_Vreg(x, c)
    IN CASE finalNib = 0 -> put_value_in_Vreg(x, Vy, c)
         [] finalNib = 1 -> put_value_in_Vreg(x, BitOr(Vx, Vy), c)
         [] finalNib = 2 -> put_value_in_Vreg(x, BitAnd(Vx, Vy), c)
         [] finalNib = 3 -> put_value_in_Vreg(x, BitXor(Vx, Vy), c)
         [] finalNib = 4 -> Op8xy4(c, x, Vx, Vy)
         [] finalNib = 5 -> Op8xy5(c, x, Vx, Vy)
         [] finalNib = 6 -> Op8xy6(c, x, Vx, Vy)
         [] finalNib = 7 -> Op8xy7(c, x, Vx, Vy)
         [] finalNib = 14 -> Op8xyE(c, x, Vx, Vy)
         [] OTHER -> c

Op9xy(c, instruction) ==
    IF get_value_in_Vreg(FieldX(instruction), c) # get_value_in_Vreg(FieldY(instruction), c)
    THEN Skip(c) ELSE c

OpAnnn(c, instruction) == [c EXCEPT !.I = FieldNNN(instruction)]

OpBnnn(c, instruction) ==
    [c EXCEPT !.pc = (FieldNNN(instruction) + get_value_in_Vreg(0, c)) % U16]

OpCxkk(c, instruction) ==
    {put_value_in_Vreg(FieldX(instruction), BitAnd(FieldKK(instruction), r), c) :
        r \in RandomBytes}

\* The pixels of one sprite row at (x, y): bit 7 of the byte is the leftmost, and a
\* pixel past the right edge is dropped.
RowPixels(x, y, byte) ==
    {<<x + i, y>> : i \in {j \in 0..7 : Bit(byte, 7 - j) = 1 /\ x + j < 64}}

\* draw_pixel_row: XOR the row into the display; TRUE when a lit pixel was cleared.
draw_pixel_row(x, y, display, byte) ==
    LET px == RowPixels(x, y, byte)
    IN [display |-> (display \ px) \cup (px \ display),
        collision |-> (px \cap display) # {}]

\* Mutant: a row past the bottom of the screen is drawn at the top.
RECURSIVE DrawLoop_WrapsRows(_, _, _, _, _)
DrawLoop_WrapsRows(c, x, y, memory_location, n) ==
    IF n <= 0 THEN {c}
    ELSE UNION {
           LET d == draw_pixel_row(x, y % 32, c.display, cur_byte)
               c1 == [Touch(c, memory_location) EXCEPT !.display = d.display]
               c2 == IF d.collision THEN put_value_in_Vreg(15, 1, c1) ELSE c1
           IN DrawLoop_WrapsRows(c2, x, y + 1, (memory_location + 1) % U16, n - 1)
           : cur_byte \in RamRead(c, memory_location)}

\* The while loop of Dxyn, from row y with n rows left.
RECURSIVE DrawLoop(_, _, _, _, _)
DrawLoop(c, x, y, memory_location, n) ==
    IF n <= 0 THEN {c}
    ELSE UNION {
           LET d == draw_pixel_row(x, y, c.display, cur_byte)
               c1 == [Touch(c, memory_location) EXCEPT !.display = d.display]
               c2 == IF d.collision THEN put_value_in_Vreg(15, 1, c1) ELSE c1
           IN IF y + 1 >= 32 THEN {c2}
              ELSE DrawLoop(c2, x, y + 1, (memory_location + 1) % U16, n - 1)
           : cur_byte \in RamRead(c, memory_location)}

\* Mutant: the draw starts from the VF it finds.
OpDxyn_KeepsFlag(c, instruction) ==
    LET x == get_value_in_Vreg(FieldX(instruction), c) % 64
        y == get_value_in_Vreg(FieldY(instruction), c) % 32
    IN DrawLoop(c, x, y, c.I, FieldN(instruction))

OpDxyn(c, instruction) ==
    LET x == get_value_in_Vreg(FieldX(instruction), c) % 64
        y == get_value_in_Vreg(FieldY(instruction), c) % 32
    IN DrawLoop(put_value_in_Vreg(15, 0, c), x, y, c.I, FieldN(instruction))

\* The 0xE family: the chip and key_state it leaves.
OpExkk(c, keys, instruction) ==
    LET last8 == FieldKK(instruction)
        Vx == get_value_in_Vreg(FieldX(instruction), c)
        keycode == get_key_from_u8(Vx)
        keys2 == KeyLookup(keys, keycode)
    IN CASE last8 = 158 -> [c |-> IF keys2[keycode] THEN Skip(c) ELSE c, k |-> keys2]
         [] last8 = 161 -> [c |-> IF ~keys2[keycode] THEN Skip(c) ELSE c, k |-> keys2]
         [] OTHER -> [c |-> c, k |-> keys]

\* Mutant: reading the delay timer stops it.
OpFx07_StopsTimer(c, x) == [put_value_in_Vreg(x, c.delay_timer, c) EXCEPT !.delay_timer = 0]

OpFx07(c, x) == put_value_in_Vreg(x, c.delay_timer, c)

\* Mutant: the scan misses the first key.
OpFx0A_SkipFirstKey(c, keys, x) ==
    LET i == FirstPressed(keys, 2)
    IN IF i # 0 THEN put_value_in_Vreg(x, KeyOrder[i][2], c)
       ELSE [c EXCEPT !.pc = (c.pc - 2) % U16]

\* Mutant: the scan runs from V back to 1.
OpFx0A_LastKey(c, keys, x) ==
    IF \E n \in 1..16 : keys[KeyOrder[n][1]]
    THEN LET i == CHOOSE n \in 1..16 : /\ keys[KeyOrder[n][1]]
                                       /\ \A j \in (n + 1)..16 : ~keys[KeyOrder[j][1]]
         IN put_value_in_Vreg(x, KeyOrder[i][2], c)
    ELSE [c EXCEPT !.pc = (c.pc - 2) % U16]

OpFx0A(c, keys, x) ==
    LET i == FirstPressed(keys, 1)
    IN IF i # 0 THEN put_value_in_Vreg(x, KeyOrder[i][2], c)
       ELSE [c EXCEPT !.pc = (c.pc - 2) % U16]

OpFx15(c, Vx) == [c EXCEPT !.delay_timer = Vx]

OpFx18(c, Vx) == [c EXCEPT !.sound_timer = Vx]

OpFx1E(c, Vx) == [c EXCEPT !.I = (c.I + Vx) % U16]

OpFx29(c, Vx) == [c EXCEPT !.I = 80 + Vx * 5]

\* Mutant: the digits stored ones first.
OpFx33_OnesFirst(c, Vx) ==
    LET c1 == RamWrite(c, c.I, Vx % 10)
        c2 == RamWrite(c1, c.I + 1, (Vx \div 10) % 10)
    IN RamWrite(c2, c.I + 2, ((Vx \div 10) \div 10) % 10)

OpFx33(c, Vx) ==
    LET c1 == RamWrite(c, c.I + 2, Vx % 10)
        c2 == RamWrite(c1, c.I + 1, (Vx \div 10) % 10)
    IN RamWrite(c2, c.I, ((Vx \div 10) \div 10) % 10)

RECURSIVE StoreLoop(_, _, _)
StoreLoop(c, i, x) ==
    IF i > x THEN c
    ELSE StoreLoop(RamWrite(c, c.I + i, get_value_in_Vreg(i, c)), i + 1, x)

\* Mutant: the store leaves I after the last byte written.
OpFx55_AdvancesI(c, x) == [StoreLoop(c, 0, x) EXCEPT !.I = (c.I + x + 1) % U16]

OpFx55(c, x) == StoreLoop(c, 0, x)

RECURSIVE LoadLoop(_, _, _)
LoadLoop(c, i, x) ==
    IF i > x THEN {c}
    ELSE UNION {LoadLoop(put_value_in_Vreg(i, b, Touch(c, c.I + i)), i + 1, x) :
                   b \in RamRead(c, c.I + i)}

OpFx65(c, x) == LoadLoop(c, 0, x)

\* The 0xF family.
OpFxkk(c, keys, instruction) ==
    LET last8 == FieldKK(instruction)
        x == FieldX(instruction)
        Vx == get_value_in_Vreg(x, c)
    IN CASE last8 = 7 -> {OpFx07(c, x)}
         [] last8 = 10 -> {OpFx0A(c, keys, x)}
         [] last8 = 21 -> {OpFx15(c, Vx)}
         [] last8 = 24 -> {OpFx18(c, Vx)}
         [] last8 = 30 -> {OpFx1E(c, Vx)}
         [] last8 = 41 -> {OpFx29(c, Vx)}
         [] last8 = 51 -> {OpFx33(c, Vx)}
         [] last8 = 85 -> {OpFx55(c, x)}
         [] last8 = 101 -> OpFx65(c, x)
         [] OTHER -> {c}

\* The 0x0 family.
Op0nnn(c, instruction) ==
    CASE instruction = 224 -> {Op00E0(c)}
      [] instruction = 238 -> Op00EE(c)
      [] OTHER -> {c}

With(chips, keys) == {[c |-> c2, k |-> keys] : c2 \in chips}

\* perform_instruction: the pairs (chip, key_state) it can leave.
perform_instruction(instruction, c, keys) ==
    LET opcode == Opcode(instruction)
    IN CASE opcode = 0 -> With(Op0nnn(c, instruction), keys)
         [] opcode = 1 -> With({Op1nnn(c, instruction)}, keys)
         [] opcode = 2 -> With({Op2nnn(c, instruction)}, keys)
         [] opcode = 3 -> With({Op3xkk(c, instruction)}, keys)
         [] opcode = 4 -> With({Op4xkk(c, instruction)}, keys)
         [] opcode = 5 -> With({Op5xy(c, instruction)}, keys)
         [] opcode = 6 -> With({Op6xkk(c, instruction)}, keys)
         [] opcode = 7 -> With({Op7xkk(c, instruction)}, keys)
         [] opcode = 8 -> With({Op8xy(c, instruction)}, keys)
         [] opcode = 9 -> With({Op9xy(c, instruction)}, keys)
         [] opcode = 10 -> With({OpAnnn(c, instruction)}, keys)
         [] opcode = 11 -> With({OpBnnn(c, instruction)}, keys)
         [] opcode = 12 -> With(OpCxkk(c, instruction), keys)
         [] opcode = 13 -> With(OpDxyn(c, instruction), keys)
         [] opcode = 14 -> {OpExkk(c, keys, instruction)}
         [] OTHER -> With(OpFxkk(c, keys, instruction), keys)

(* ----------- the earlier perform_instruction, of chip8.cpp ------------- *)

\* The 0x0 family of chip8.cpp: the inner switch has no break after it, so control
\* falls into case 0x1 and PC takes the low 12 bits of the instruction word.
Old_Op0nnn(c, instruction) ==
    LET inner == CASE instruction = 224 -> {Op00E0(c)}
                   [] instruction = 238 -> Op00EE(c)
                   [] OTHER -> {c}
    IN {Op1nnn(c2, instruction) : c2 \in inner}

\* 2nnn of chip8.cpp: sp++ comes before the store.
Old_Op2nnn(c, instruction) ==
    IF c.sp >= 16 - 1 THEN c
    ELSE [c EXCEPT !.sp = c.sp + 1, !.stack[c.sp + 1] = c.pc,
                   !.pc = FieldNNN(instruction)]

\* Mutant: 8xy4 of chip8.cpp with the flag written first.
Old_Op8xy4_FlagFirst(c, x, Vx, Vy) ==
    put_value_in_Vreg(x, (Vx + Vy) % U8,
                      put_value_in_Vreg(15, IF Vx + Vy > 255 THEN 1 ELSE 0, c))

Old_Op8xy4(c, x, Vx, Vy) ==
    LET sum == Vx + Vy
        carry == IF sum > 255 THEN 1 ELSE 0
    IN put_value_in_Vreg(15, carry, put_value_in_Vreg(x, sum % U8, c))

Old_Op8xy5(c, x, Vx, Vy) ==
    LET carry == IF Vx > Vy THEN 1 ELSE 0
    IN put_value_in_Vreg(15, carry, put_value_in_Vreg(x, (Vx - Vy) % U8, c))

Old_Op8xy6(c, x, Vx, Vy) ==
    LET lsb == Vx % 2
    IN put_value_in_Vreg(x, Vx \div 2, put_value_in_Vreg(15, lsb, c))

Old_Op8xy7(c, x, Vx, Vy) ==
    LET carry == IF Vy > Vx THEN 1 ELSE 0
    IN put_value_in_Vreg(15, carry, put_value_in_Vreg(x, (Vy - Vx) % U8, c))

Old_Op8xyE(c, x, Vx, Vy) ==
    LET msb == Vx \div 128
    IN put_value_in_Vreg(15, msb, put_value_in_Vreg(x, (Vx * 2) % U8, c))

Old_Op8xy(c, instruction) ==
    LET finalNib == FieldN(instruction)
        x == FieldX(instruction)
        Vy == get_value_in_Vreg(FieldY(instruction), c)
        Vx == get_value_in_Vreg(x, c)
    IN CASE finalNib = 0 -> put_value_in_Vreg(x, Vy, c)
         [] finalNib = 1 -> put_value_in_Vreg(x, BitOr(Vx, Vy), c)
         [] finalNib = 2 -> put_value_in_Vreg(x, BitAnd(Vx, Vy), c)
         [] finalNib = 3 -> put_value_in_Vreg(x, BitXor(Vx, Vy), c)
         [] finalNib = 4 -> Old_Op8xy4(c, x, Vx, Vy)
         [] finalNib = 5 -> Old_Op8xy5(c, x, Vx, Vy)
         [] finalNib = 6 -> Old_Op8xy6(c, x, Vx, Vy)
         [] finalNib = 7 -> Old_Op8xy7(c, x, Vx, Vy)
         [] finalNib = 14 -> Old_Op8xyE(c, x, Vx, Vy)
         [] OTHER -> c

\* perform_instruction of chip8.cpp: the cases 3xkk .. 7xkk, Annn and Dxyn read as in the
\* later version; 9, B, C, E and F only print.
Old_perform_instruction(instruction, c, keys) ==
    LET opcode == Opcode(instruction)
    IN CASE opcode = 0 -> With(Old_Op0nnn(c, instruction), keys)
         [] opcode = 1 -> With({Op1nnn(c, instruction)}, keys)
         [] opcode = 2 -> With({Old_Op2nnn(c, instruction)}, keys)
         [] opcode = 3 -> With({Op3xkk(c, instruction)}, keys)
         [] opcode = 4 -> With({Op4xkk(c, instruction)}, keys)
         [] opcode = 5 -> With({Op5xy(c, instruction)}, keys)
         [] opcode = 6 -> With({Op6xkk(c, instruction)}, keys)
         [] opcode = 7 -> With({Op7xkk(c, instruction)}, keys)
         [] opcode = 8 -> With({Old_Op8xy(c, instruction)}, keys)
         [] opcode = 10 -> With({OpAnnn(c, instruction)}, keys)
         [] opcode = 13 -> With(OpDxyn(c, instruction), keys)
         [] OTHER -> With({c}, keys)

\* fetch_instruction: the pairs (instruction, chip) it can yield.
fetch_instruction(c) ==
    {[instruction |-> hi * 256 + lo,
      c |-> [Touch(Touch(c, c.pc), c.pc + 1) EXCEPT !.pc = (c.pc + 2) % U16]] :
        hi \in RamRead(c, c.pc), lo \in RamRead(c, c.pc + 1)}

\* Mutant: the decrements without their guards.
update_timers_Unguarded(c) ==
    [c EXCEPT !.delay_timer = (@ + U8 - 1) % U8, !.sound_timer = (@ + U8 - 1) % U8]

update_timers(c) ==
    LET c1 == IF c.delay_timer > 0 THEN [c EXCEPT !.delay_timer = c.delay_timer - 1] ELSE c
    IN IF c1.sound_timer > 0 THEN [c1 EXCEPT !.sound_timer = c1.sound_timer - 1] ELSE c1

\* The key_state name of a host key handle_key_down and handle_key_up map, "" for
\* any other host key.
HostKeys == KeyNames \cup {"P"}

KeyOfHost(key_pressed) == IF key_pressed \in KeyNames THEN key_pressed ELSE ""

handle_key_down(keys, key_pressed) ==
    IF KeyOfHost(key_pressed) = "" THEN keys
    ELSE [keys EXCEPT ![KeyOfHost(key_pressed)] = TRUE]

\* Mutant: a key-up releases every key.
handle_key_up_ReleasesAll(keys, key_pressed) ==
    IF KeyOfHost(key_pressed) = "" THEN keys
    ELSE [k \in DOMAIN keys |-> FALSE]

handle_key_up(keys, key_pressed) ==
    IF KeyOfHost(key_pressed) = "" THEN keys
    ELSE [keys EXCEPT ![KeyOfHost(key_pressed)] = FALSE]

(* ------------------------------- state --------------------------------- *)

VARIABLES
    chip,        \* the Chip8: V, I, pc, sp, delay_timer, sound_timer, ram, stack, display
    key_state,   \* the global key map
    running,     \* run's flag
    loc,         \* run's position: "top", "poll", "cycle", "render", "delay", "exited"
    cycleAge,    \* cur_time - lastCycleTime, saturated at AgeCap
    renderAge,   \* cur_time - lastRenderUpdate, saturated at AgeCap
    events,      \* the host events SDL_PollEvent has yet to return
    host,        \* the host of this run: the events it sends, how many may be pending,
                 \* and the milliseconds an SDL_Delay(1) may take
    budget,      \* history: instruction ticks a bounded run may still take
    hist,        \* history: the last operation (of this iteration of run), with the state
                 \* it started from
    ghost,       \* history: the pending call and what last set each timer
    iter         \* history: what the current iteration of run has done

vars == <<chip, key_state, running, loc, cycleAge, renderAge, events, host, budget, hist,
          ghost, iter>>
runVars == <<running, loc, cycleAge, renderAge, events, host, iter>>

\* The machine at power-on: everything zero, pc at the start of the program.
PowerOn ==
    [V |-> [r \in Regs |-> 0], I |-> 0, pc |-> ROM_START, sp |-> 0,
     delay_timer |-> 0, sound_timer |-> 0,
     ram |-> [a \in {} |-> 0], stack |-> [i \in 0..(STACK_SIZE - 1) |-> 0],
     display |-> {}, oob |-> FALSE]

KeysUp == [k \in KeyNames |-> FALSE]

\* load_rom: the instruction words of the ROM, high byte first, from ROM_START on.
load_rom(words, c) ==
    [c EXCEPT !.ram = [a \in DOMAIN c.ram \cup (ROM_START..(ROM_START + 2 * Len(words) - 1)) |->
        IF a >= ROM_START /\ a < ROM_START + 2 * Len(words)
        THEN LET w == words[((a - ROM_START) \div 2) + 1]
             IN IF (a - ROM_START) % 2 = 0 THEN w \div 256 ELSE w % 256
        ELSE c.ram[a]]]

NoCall == [valid |-> FALSE, ret |-> 0, sp |-> 0]
NoWait == [valid |-> FALSE, addr |-> 0, instruction |-> 0]
NoStore == [valid |-> FALSE, x |-> 0, I |-> 0, V |-> [r \in Regs |-> 0]]
NoDraw == [valid |-> FALSE, x0 |-> 0, y0 |-> 0, n |-> 0, I |-> 0, display |-> {}]
Ghost0 == [call |-> NoCall, dt |-> [v |-> 0, n |-> 0], st |-> [v |-> 0, n |-> 0],
           wait |-> NoWait, store |-> NoStore, draw |-> NoDraw, blank |-> FALSE]
Iter0 == [instrs |-> 0, timers |-> 0, drained |-> 0, drainDone |-> FALSE,
          keys0 |-> KeysUp, keys |-> KeysUp, pending |-> 0, quit |-> FALSE, cycleWas |-> 0, renderWas |-> 0]

Hist0(c, keys) ==
    [op |-> "init", instruction |-> 0, addr |-> 0, pre |-> c, prekeys |-> keys,
     call |-> NoCall, wait |-> NoWait, store |-> NoStore, draw |-> NoDraw]

\* The history of the pending call after an instruction fetched with the chip at `pre`.
CallAfter(call, instruction, pre) ==
    IF Opcode(instruction) = 2
    THEN IF pre.sp < 15
         THEN [valid |-> TRUE, ret |-> (pre.pc + 2) % U16, sp |-> pre.sp]
         ELSE NoCall
    ELSE IF instruction = 238 THEN NoCall ELSE call

\* The history of a timer after an instruction: Fx15 (low = 21) or Fx18 (low = 24) sets it.
ArmAfter(arm, instruction, pre, low) ==
    IF Opcode(instruction) = 15 /\ FieldKK(instruction) = low
    THEN [v |-> get_value_in_Vreg(FieldX(instruction), pre), n |-> 0]
    ELSE arm

\* The history of the key wait after an instruction: an Fx0A that left PC where it was
\* fetched is waiting.
WaitAfter(instruction, pre, post) ==
    IF Opcode(instruction) = 15 /\ FieldKK(instruction) = 10 /\ post.pc = pre.pc
    THEN [valid |-> TRUE, addr |-> pre.pc, instruction |-> instruction]
    ELSE NoWait

\* The history of the last register store after an instruction: Fx55 (low = 85) records
\* the registers and I it ran with; Fx33 and Fx65 end it.
StoreAfter(store, instruction, pre) ==
    IF Opcode(instruction) = 15 /\ FieldKK(instruction) = 85
    THEN [valid |-> TRUE, x |-> FieldX(instruction), I |-> pre.I, V |-> pre.V]
    ELSE IF Opcode(instruction) = 15 /\ FieldKK(instruction) \in {51, 101}
         THEN NoStore ELSE store

\* The history of the last draw after an instruction: Dxyn records its origin, row
\* count, I and the display it drew on; an instruction that writes memory or clears the
\* screen ends it.
DrawAfter(draw, instruction, pre) ==
    IF Opcode(instruction) = 13
    THEN [valid |-> TRUE,
          x0 |-> get_value_in_Vreg(FieldX(instruction), pre) % 64,
          y0 |-> get_value_in_Vreg(FieldY(instruction), pre) % 32,
          n |-> FieldN(instruction), I |-> pre.I, display |-> pre.display]
    ELSE IF \/ instruction = 224
            \/ Opcode(instruction) = 15 /\ FieldKK(instruction) \in {51, 85}
         THEN NoDraw ELSE draw

\* Whether the screen has been cleared and not drawn on since: 00E0 sets it, Dxyn ends it.
BlankAfter(blank, instruction) ==
    IF instruction = 224 THEN TRUE
    ELSE IF Opcode(instruction) = 13 THEN FALSE ELSE blank

\* A tick counts towards a timer's history until the timer has run out.
ArmTick(arm) == [arm EXCEPT !.n = IF @ < arm.v THEN @ + 1 ELSE @]

\* One instruction tick (run, lines 92-93) from machine m = [c, k, hist, ghost]: the
\* machines it can leave.
InstructionTick(m) ==
    UNION {
      {[c |-> r.c, k |-> r.k,
        hist |-> [op |-> "cycle", instruction |-> f.instruction, addr |-> m.c.pc,
                  pre |-> m.c, prekeys |-> m.k, call |-> m.ghost.call,
                  wait |-> m.ghost.wait, store |-> m.ghost.store,
                  draw |-> m.ghost.draw],
        ghost |-> [call |-> CallAfter(m.ghost.call, f.instruction, m.c),
                   dt |-> ArmAfter(m.ghost.dt, f.instruction, m.c, 21),
                   st |-> ArmAfter(m.ghost.st, f.instruction, m.c, 24),
                   wait |-> WaitAfter(f.instruction, m.c, r.c),
                   store |-> StoreAfter(m.ghost.store, f.instruction, m.c),
                   draw |-> DrawAfter(m.ghost.draw, f.instruction, m.c),
                   blank |-> BlankAfter(m.ghost.blank, f.instruction)]] :
          r \in perform_instruction(f.instruction, f.c, m.k)} :
      f \in fetch_instruction(m.c)}

\* One instruction tick of chip8.cpp's run (its fetch_instruction is the same).
Old_InstructionTick(m) ==
    UNION {
      {[c |-> r.c, k |-> r.k,
        hist |-> [op |-> "oldcycle", instruction |-> f.instruction, addr |-> m.c.pc,
                  pre |-> m.c, prekeys |-> m.k, call |-> m.ghost.call,
                  wait |-> m.ghost.wait, store |-> m.ghost.store,
                  draw |-> m.ghost.draw],
        ghost |-> [m.ghost EXCEPT !.call = CallAfter(@, f.instruction, m.c)]] :
          r \in Old_perform_instruction(f.instruction, f.c, m.k)} :
      f \in fetch_instruction(m.c)}

\* One timer tick (run, line 102) from machine m.
TimerTick(m) ==
    [c |-> update_timers(m.c), k |-> m.k,
     hist |-> [op |-> "timers", instruction |-> 0, addr |-> m.c.pc,
               pre |-> m.c, prekeys |-> m.k, call |-> m.ghost.call,
               wait |-> m.ghost.wait, store |-> m.ghost.store,
               draw |-> m.ghost.draw],
     ghost |-> [m.ghost EXCEPT !.dt = ArmTick(@), !.st = ArmTick(@)]]

Machine == [c |-> chip, k |-> key_state, hist |-> hist, ghost |-> ghost]

SetMachine(m) ==
    /\ chip' = m.c
    /\ key_state' = m.k
    /\ hist' = m.hist
    /\ ghost' = m.ghost

\* The byte values registers are drawn from.
ByteSamples == (0..MaxLow) \cup ((255 - MaxLow)..255) \cup {127, 128}

\* The state with the machine at c, the keys at keys and run not started.
Start(c, keys, n, h) ==
    /\ chip = c
    /\ key_state = keys
    /\ running = TRUE
    /\ loc = "top"
    /\ cycleAge = 0
    /\ renderAge = 0
    /\ events = <<>>
    /\ host = h
    /\ budget = n
    /\ hist = Hist0(c, keys)
    /\ ghost = [Ghost0 EXCEPT !.dt.v = c.delay_timer, !.st.v = c.sound_timer]
    /\ iter = Iter0

(* ------------------- the instruction-level machine --------------------- *)

\* fetch_instruction and perform_instruction, as one step.
Cycle ==
    /\ budget > 0
    /\ \E m \in InstructionTick(Machine) : SetMachine(m)
    /\ budget' = budget - 1
    /\ UNCHANGED runVars

\* fetch_instruction and perform_instruction of chip8.cpp, as one step.
Old_Cycle ==
    /\ budget > 0
    /\ \E m \in Old_InstructionTick(Machine) : SetMachine(m)
    /\ budget' = budget - 1
    /\ UNCHANGED runVars

\* A timer tick on its own (update_timers, called at the render cadence).
Timers ==
    /\ SetMachine(TimerTick(Machine))
    /\ UNCHANGED <<budget, runVars>>

(* ------------------------------ the run loop --------------------------- *)

\* The budget after n instruction ticks; Unlimited is never spent.
Unlimited == 0 - 1
Spend(b, n) == IF b = Unlimited THEN b ELSE b - n
Affordable(b, n) == b = Unlimited \/ b >= n

\* Mutant: an iteration catches up on the instructions a stall has missed.
CycleCount_CatchUp(age) == age \div cycleDelay

\* Mutant: the drain takes one event per iteration (an if for the while).
PollAgain_Once(queue, n) == queue # <<>> /\ n = 0

\* The instructions an iteration executes when cur_time - lastCycleTime is age.
CycleCount(age) == IF age >= cycleDelay THEN 1 ELSE 0

\* The timer/render ticks an iteration performs when cur_time - lastRenderUpdate is age.
RenderCount(age) == IF age >= renderDelay THEN 1 ELSE 0

\* while (SDL_PollEvent(&event)): whether the body runs again, n events drained so far.
PollAgain(queue, n) == queue # <<>>

\* n instruction ticks in a row.
RECURSIVE ExecN(_, _)
ExecN(m, n) ==
    IF n <= 0 THEN {m} ELSE UNION {ExecN(m2, n - 1) : m2 \in InstructionTick(m)}

RECURSIVE TimersN(_, _)
TimersN(m, n) == IF n <= 0 THEN m ELSE TimersN(TimerTick(m), n - 1)

\* The key events of the first n keys of KeyOrder, and the quit event.
KeyEvents(n) == {[type |-> t, key |-> KeyOrder[i][1]] : t \in {"down", "up"}, i \in 1..n}
QuitEvent == [type |-> "quit", key |-> ""]

\* A host that sends nothing: the instruction-level specifications have no run loop.
NoHost == [events |-> {}, pending |-> 0, delays |-> {1}]

\* The host queues an event; SDL_PollEvent will return it.  Between the end of one
\* drain and the next nothing reads the queue, so an event that arrives there is queued
\* as the next iteration starts.
HostEvent ==
    /\ loc \in {"top", "poll"}
    /\ Len(events) < host.pending
    /\ \E e \in host.events : events' = Append(events, e)
    /\ UNCHANGED <<chip, key_state, running, loc, cycleAge, renderAge, host, budget, hist,
                   ghost, iter>>

\* The keys after the drain loop's body has handled event e.
ApplyEvent(keys, e) ==
    CASE e.type = "down" -> handle_key_down(keys, e.key)
      [] e.type = "up" -> handle_key_up(keys, e.key)
      [] OTHER -> keys

\* Mutant: a key event handled after the quit event lets the loop go on.
RunningAfter_KeyResumes(r, e) == e.type # "quit"

\* running after the drain loop's body has handled event e.
RunningAfter(r, e) == IF e.type = "quit" THEN FALSE ELSE r

\* while (running) and cur_time = SDL_GetTicks().
RunTop ==
    /\ loc = "top"
    /\ IF running
       THEN /\ loc' = "poll"
            /\ iter' = [Iter0 EXCEPT !.keys0 = key_state, !.keys = key_state, !.quit = iter.quit,
                                     !.cycleWas = cycleAge, !.renderWas = renderAge]
       ELSE /\ loc' = "exited"
            /\ iter' = iter
    /\ hist' = [Hist0(chip, key_state) EXCEPT !.op = "top"]
    /\ UNCHANGED <<chip, key_state, running, cycleAge, renderAge, events, host, budget, ghost>>

\* One SDL_PollEvent of the drain loop, with the event's handling.
RunPoll ==
    /\ loc = "poll"
    /\ IF PollAgain(events, iter.drained)
       THEN LET e == Head(events)
            IN /\ events' = Tail(events)
               /\ running' = RunningAfter(running, e)
               /\ key_state' = ApplyEvent(key_state, e)
               /\ iter' = [iter EXCEPT !.drained = IF @ < MaxEvents THEN @ + 1 ELSE @,
                                       !.quit = @ \/ e.type = "quit",
                                       !.keys = ApplyEvent(@, e)]
               /\ loc' = loc
       ELSE /\ loc' = "cycle"
            /\ iter' = [iter EXCEPT !.drainDone = TRUE, !.pending = Len(events)]
            /\ UNCHANGED <<events, running, key_state>>
    /\ UNCHANGED <<chip, cycleAge, renderAge, host, budget, hist, ghost>>

\* if (cur_time - lastCycleTime >= cycleDelay): an instruction tick.
RunCycle ==
    /\ loc = "cycle"
    /\ Affordable(budget, CycleCount(cycleAge))
    /\ \E m \in ExecN(Machine, CycleCount(cycleAge)) : SetMachine(m)
    /\ cycleAge' = IF CycleCount(cycleAge) > 0 THEN 0 ELSE cycleAge
    /\ budget' = Spend(budget, CycleCount(cycleAge))
    /\ iter' = [iter EXCEPT !.instrs = @ + CycleCount(cycleAge)]
    /\ loc' = "render"
    /\ UNCHANGED <<running, renderAge, events, host>>

\* if (cur_time - lastRenderUpdate >= renderDelay): update_timers and update_screen.
RunRender ==
    /\ loc = "render"
    /\ SetMachine(TimersN(Machine, RenderCount(renderAge)))
    /\ renderAge' = IF RenderCount(renderAge) > 0 THEN 0 ELSE renderAge
    /\ iter' = [iter EXCEPT !.timers = @ + RenderCount(renderAge)]
    /\ loc' = "delay"
    /\ UNCHANGED <<running, cycleAge, events, host, budget>>

\* SDL_Delay(1): at least a millisecond passes.
RunDelay ==
    /\ loc = "delay"
    /\ \E d \in host.delays :
         /\ cycleAge' = cycleAge + d
         /\ renderAge' = renderAge + d
    /\ loc' = "top"
    /\ UNCHANGED <<chip, key_state, running, events, host, budget, hist, ghost, iter>>

\* A key event handled on its own (the body of run's drain loop).
KeyInput ==
    /\ \E e \in host.events : key_state' = ApplyEvent(key_state, e)
    /\ hist' = [Hist0(chip, key_state) EXCEPT !.op = "event"]
    /\ UNCHANGED <<chip, ghost, budget, runVars>>

RunStep == RunTop \/ RunPoll \/ RunCycle \/ RunRender \/ RunDelay

(* ------------- SpecAlu: one 8xy4/5/6/7/E from any registers ------------ *)

AluWords == {8 * 4096 + x * 256 + y * 16 + n : x \in Regs, y \in Regs, n \in {4, 5, 6, 7, 14}}

InitAlu ==
    \E w \in AluWords, a \in ByteSamples, b \in ByteSamples, f \in ByteSamples :
        Start(load_rom(<<w>>, [PowerOn EXCEPT !.V = [r \in Regs |->
                  IF r = FieldX(w) THEN a ELSE IF r = FieldY(w) THEN b
                  ELSE IF r = 15 THEN f ELSE 0]]),
              KeysUp, 1, NoHost)

NextAlu == Cycle

SpecAlu == InitAlu /\ [][NextAlu]_vars

\* The instruction the last step executed, and its fields.
Executed == hist.op = "cycle"
LastX == FieldX(hist.instruction)
LastY == FieldY(hist.instruction)
LastIs8xy(n) == Executed /\ Opcode(hist.instruction) = 8 /\ FieldN(hist.instruction) = n

\* C3: after 8xy4, 8xy5 and 8xy7, for every x and y (x = F and y = F included), VF is
\* the flag of the operands the instruction started with: the carry of Vx + Vy, Vx > Vy,
\* Vy > Vx.
C3_FlagFromOperands ==
    /\ LastIs8xy(4) =>
         chip.V[15] = (IF hist.pre.V[LastX] + hist.pre.V[LastY] > 255 THEN 1 ELSE 0)
    /\ LastIs8xy(5) =>
         chip.V[15] = (IF hist.pre.V[LastX] > hist.pre.V[LastY] THEN 1 ELSE 0)
    /\ LastIs8xy(7) =>
         chip.V[15] = (IF hist.pre.V[LastY] > hist.pre.V[LastX] THEN 1 ELSE 0)

(* -------- SpecCall: programs of calls, returns and jumps from power-on -- *)

\* 2200, 2202, 2204 (calls into the ROM), 00EE, 1200, 6001 and 00E0.
CallWords == {8704, 8706, 8708, 238, 4608, 24577, 224}

Programs(words, len) == [1..len -> words]

InitCall ==
    \E rom \in Programs(CallWords, ProgLen) :
        Start(load_rom(rom, PowerOn), KeysUp, MaxTicks, NoHost)

NextCall == Cycle

SpecCall == InitCall /\ [][NextCall]_vars

\* The chip perform_instruction was handed: the one the step started from, fetched.
Fetched == [hist.pre EXCEPT !.pc = (hist.pre.pc + 2) % U16, !.oob = chip.oob]

LastIsCall == Executed /\ Opcode(hist.instruction) = 2
LastIsReturn == Executed /\ hist.instruction = 238

\* C1: a 2nnn fetched at address a with SP < 15 and then, with no call or return in
\* between, a 00EE leave PC = a + 2 and SP at its value before the call.
C1_CallReturn ==
    (LastIsReturn /\ hist.call.valid) =>
        /\ chip.pc = hist.call.ret
        /\ chip.sp = hist.call.sp

C1_Witness ==
    /\ LastIsReturn /\ hist.call.valid
    /\ chip.pc = hist.call.ret /\ chip.pc > ROM_START
    /\ chip.sp = hist.call.sp

\* C2: a 2nnn executed with SP < 15 pushes the address after it and jumps; one executed
\* with SP >= 15 changes nothing but the fetch's advance of PC; stack slot 15 is never
\* written.
C2_OverflowDropped ==
    /\ (LastIsCall /\ hist.pre.sp < 15) =>
          /\ chip.sp = hist.pre.sp + 1
          /\ chip.pc = FieldNNN(hist.instruction)
          /\ chip.stack = [hist.pre.stack EXCEPT ![hist.pre.sp] = (hist.pre.pc + 2) % U16]
    /\ (LastIsCall /\ hist.pre.sp >= 15) =>
          /\ chip = Fetched
          /\ key_state = hist.prekeys
    /\ chip.stack[15] = 0

\* The sixteenth nested call, dropped: SP is 15 on a machine no return underflowed.
C2_Witness ==
    /\ LastIsCall /\ hist.pre.sp = 15 /\ chip.sp = 15
    /\ \A i \in 0..14 : chip.stack[i] # 0
    /\ ~chip.oob

(* ---------- SpecDecode: any one instruction word, executed once -------- *)

\* A machine in mid-program: two calls deep, both timers running, a pixel lit, data at I.
DecodeChip(v) ==
    [PowerOn EXCEPT !.V = v, !.I = 768, !.sp = 2,
                    !.stack = [@ EXCEPT ![0] = 516, ![1] = 518],
                    !.delay_timer = 3, !.sound_timer = 5,
                    !.display = {<<0, 0>>, <<63, 31>>},
                    !.ram = [a \in 768..770 |-> a - 767]]

DecodeRegs == {[r \in Regs |-> 0], [r \in Regs |-> r]}

DecodeKeys == {KeysUp, [KeysUp EXCEPT !["X"] = TRUE, !["2"] = TRUE]}

InitDecode ==
    \E w \in 0..(U16 - 1), v \in DecodeRegs, keys \in DecodeKeys :
        Start(load_rom(<<w>>, DecodeChip(v)), keys, 1, NoHost)

NextDecode == Cycle

SpecDecode == InitDecode /\ [][NextDecode]_vars

\* The instruction words no row of the opcode table matches.
UnknownWord(w) ==
    LET op == Opcode(w)
    IN \/ op = 0 /\ w \notin {224, 238}
       \/ op \in {5, 9} /\ FieldN(w) # 0
       \/ op = 8 /\ FieldN(w) \in (8..13) \cup {15}
       \/ op = 14 /\ FieldKK(w) \notin {158, 161}
       \/ op = 15 /\ FieldKK(w) \notin {7, 10, 21, 24, 30, 41, 51, 85, 101}

\* C4: an instruction word that matches no pattern of the opcode table is a no-op:
\* the machine it leaves is the fetched one, and the keys are untouched.
C4_UnknownIsNoOp ==
    (Executed /\ UnknownWord(hist.instruction)) =>
        /\ chip = Fetched
        /\ key_state = hist.prekeys

(* ------------ SpecWait: run on a program that waits for a key --------- *)

\* 6002 F015 F10A 1204: start the delay timer, then wait for keys for ever.
WaitRom == <<24578, 61461, 61706, 4612>>

\* A host that presses and releases keys; an SDL_Delay(1) takes 1 ms or a whole frame.
WaitHost == [events |-> KeyEvents(MaxKeys), pending |-> MaxEvents,
             delays |-> {1, renderDelay}]

InitWait == Start(load_rom(WaitRom, PowerOn), KeysUp, Unlimited, WaitHost)

NextWait == RunStep \/ HostEvent

\* run is a sequential loop: while it has a step to take, it takes it.
SpecWait == InitWait /\ [][NextWait]_vars /\ WF_vars(RunStep)

AnyKey(keys) == \E k \in KeyNames : keys[k]

IsFx0A(w) == Opcode(w) = 15 /\ FieldKK(w) = 10

\* The hex digits in the order the claim gives for the scan.
ScanOrder == <<1, 2, 3, 4, 5, 6, 7, 8, 9, 10, 0, 11, 12, 13, 14, 15>>

\* The hex digit of the first pressed key, in the claim's order; 16 when none is pressed.
FirstHex(keys) ==
    IF ~AnyKey(keys) THEN 16
    ELSE ScanOrder[CHOOSE i \in 1..16 :
                     /\ keys[get_key_from_u8(ScanOrder[i])]
                     /\ \A j \in 1..(i - 1) : ~keys[get_key_from_u8(ScanOrder[j])]]

\* run has just taken an instruction tick: hist holds that tick.
Ticked == loc = "render" /\ iter.instrs > 0 /\ Executed

\* C5 (safety): an Fx0A executed with no key pressed leaves the whole chip as it was
\* before the fetch (PC back at the instruction) and the keys alone; the next instruction
\* tick fetches the same Fx0A at the same address; an Fx0A executed with a key pressed
\* writes Vx and leaves PC after the instruction.
C5_WaitStep ==
    /\ (Ticked /\ IsFx0A(hist.instruction) /\ ~AnyKey(hist.prekeys)) =>
          /\ chip = hist.pre
          /\ key_state = hist.prekeys
          /\ ghost.wait.valid
    /\ (Ticked /\ hist.wait.valid) =>
          /\ hist.instruction = hist.wait.instruction
          /\ hist.addr = hist.wait.addr
    /\ (Ticked /\ IsFx0A(hist.instruction) /\ AnyKey(hist.prekeys)) =>
          /\ chip = [Fetched EXCEPT !.V[LastX] = FirstHex(hist.prekeys)]
          /\ ~ghost.wait.valid
    /\ (ghost.wait.valid /\ running) => loc # "exited"

\* C5: the safety part in every state; and if instruction ticks keep coming and from some
\* point on a key is held down, the machine is again and again not waiting.
C5_BusyWait ==
    /\ []C5_WaitStep
    /\ ([]<>Ticked /\ <>[]AnyKey(key_state)) => []<>(~ghost.wait.valid)

\* Waiting, with an event drained in this iteration and the timers ticked while waiting.
C5_Witness ==
    /\ ghost.wait.valid
    /\ hist.op = "timers" /\ chip.delay_timer < hist.pre.delay_timer
    /\ iter.drained > 0 /\ hist.wait.valid

(* --------- SpecKey: one Fx0A, for any register and held keys ---------- *)

\* The key states with at most n keys down.
KeySets(n) ==
    {[k \in KeyNames |-> k \in down] : down \in {d \in SUBSET KeyNames : Cardinality(d) <= n}}

InitKey ==
    \E x \in Regs, v \in DecodeRegs, keys \in KeySets(MaxPressed) :
        Start(load_rom(<<15 * 4096 + x * 256 + 10>>, DecodeChip(v)), keys, 1, NoHost)

NextKey == Cycle

SpecKey == InitKey /\ [][NextKey]_vars

\* C6: an Fx0A executed with some key pressed stores in Vx the hex value of the pressed
\* key that comes first in the order 1,2,3,4,5,6,7,8,9,A,0,B,C,D,E,F, changes nothing
\* else, and leaves PC after the instruction.
C6_FirstKeyInOrder ==
    (Executed /\ IsFx0A(hist.instruction) /\ AnyKey(hist.prekeys)) =>
        /\ chip.V[LastX] = FirstHex(hist.prekeys)
        /\ \A r \in Regs \ {LastX} : chip.V[r] = hist.pre.V[r]
        /\ chip.pc = (hist.pre.pc + 2) % U16
        /\ [chip EXCEPT !.V = hist.pre.V, !.pc = hist.pre.pc] = hist.pre
        /\ key_state = hist.prekeys

\* Z (hex A) and X (hex 0) are both down: the scan meets Z first, so V5 gets 10.
C6_Witness ==
    /\ Executed /\ IsFx0A(hist.instruction) /\ LastX = 5
    /\ hist.prekeys["Z"] /\ hist.prekeys["X"]
    /\ hist.pre.V[5] = 5 /\ chip.V[5] = 10
    /\ chip.pc = ROM_START + 2

(* ------- SpecTimer: timer instructions and timer ticks, interleaved ----- *)

\* F015, F118 and F007: set the delay timer from V0, the sound timer from V1, read the
\* delay timer into V0.
TimerWords == {61461, 61720, 61447}

InitTimer ==
    \E rom \in Programs(TimerWords, 2), a \in ByteSamples :
        Start(load_rom(rom, [PowerOn EXCEPT !.V[0] = a, !.V[1] = 2]), KeysUp, 2, NoHost)

NextTimer == Cycle \/ Timers

SpecTimer == InitTimer /\ [][NextTimer]_vars

LastIsTimers == hist.op = "timers"

\* What one tick makes of a timer.
Ticked1(t) == IF t > 0 THEN t - 1 ELSE 0

\* C7: update_timers takes exactly 1 from each timer that is above 0 and leaves a timer
\* at 0 where it is, touching nothing else; and a timer that Fx15/Fx18 set to v holds
\* v - n after n ticks, n <= v, and 0 from then on, so it reaches 0 after exactly v ticks.
C7_TimersFloorAtZero ==
    /\ LastIsTimers =>
          /\ chip.delay_timer = Ticked1(hist.pre.delay_timer)
          /\ chip.sound_timer = Ticked1(hist.pre.sound_timer)
          /\ [chip EXCEPT !.delay_timer = hist.pre.delay_timer,
                          !.sound_timer = hist.pre.sound_timer] = hist.pre
          /\ ~(hist.pre.delay_timer = 0 /\ chip.delay_timer = 255)
          /\ ~(hist.pre.sound_timer = 0 /\ chip.sound_timer = 255)
    /\ ghost.dt.n <= ghost.dt.v /\ chip.delay_timer = ghost.dt.v - ghost.dt.n
    /\ ghost.st.n <= ghost.st.v /\ chip.sound_timer = ghost.st.v - ghost.st.n

\* The delay timer, set to 255, has run out after 255 ticks and been ticked at 0, while
\* the sound timer, set after it, ran out on its own count.
C7_Witness ==
    /\ LastIsTimers
    /\ ghost.dt.v = 255 /\ ghost.dt.n = 255
    /\ hist.pre.delay_timer = 0 /\ chip.delay_timer = 0
    /\ ghost.st.v = 2 /\ ghost.st.n = 2 /\ chip.sound_timer = 0

\* C8: an instruction leaves delay_timer as it was unless it is Fx15, which sets it to
\* Vx, and sound_timer as it was unless it is Fx18, which sets it to Vx; Fx07 copies
\* delay_timer into Vx and changes neither.
C8_TimerWriters ==
    Executed =>
        /\ chip.delay_timer =
              (IF Opcode(hist.instruction) = 15 /\ FieldKK(hist.instruction) = 21
               THEN hist.pre.V[LastX] ELSE hist.pre.delay_timer)
        /\ chip.sound_timer =
              (IF Opcode(hist.instruction) = 15 /\ FieldKK(hist.instruction) = 24
               THEN hist.pre.V[LastX] ELSE hist.pre.sound_timer)
        /\ (Opcode(hist.instruction) = 15 /\ FieldKK(hist.instruction) = 7) =>
              chip.V[LastX] = hist.pre.delay_timer

\* FA07 with VA = 10: VA takes the delay timer's 3, and the timers stay 3 and 5.
C8_Witness ==
    /\ Executed /\ hist.instruction = 64007
    /\ hist.pre.V[10] = 10 /\ chip.V[10] = 3
    /\ chip.delay_timer = 3 /\ chip.sound_timer = 5

(* ------ SpecRun: run on a program that tests keys, with host stalls ----- *)

\* 6001 E0A1 F10A E09E 1202 1202: test key 1 with ExA1, read a key, test key 1 with
\* Ex9E, and start over.
RunRom == <<24577, 57505, 61706, 57502, 4610, 4610>>

\* A host that presses and releases keys, closes the window, and lets an SDL_Delay(1)
\* take 1 ms or stall for MaxStall frames.
RunHost == [events |-> KeyEvents(MaxKeys) \cup {QuitEvent}, pending |-> MaxEvents,
            delays |-> {1, MaxStall * renderDelay}]

InitRun == Start(load_rom(RunRom, PowerOn), KeysUp, Unlimited, RunHost)

NextRun == RunStep \/ HostEvent

SpecRun == InitRun /\ [][NextRun]_vars

\* The key Ex9E / ExA1 test: the one Vx named when the instruction was fetched.
TestedKey == get_key_from_u8(hist.pre.V[LastX])

\* C9: the cadences are checked only once the drain has emptied the event queue, and
\* nothing is executed or ticked before; the instruction of an iteration reads the key
\* state that the events drained in this iteration have left: Ex9E and ExA1 skip by it,
\* Fx0A reads its key from it.
C9_DrainBeforeCadence ==
    /\ (loc \in {"cycle", "render", "delay"}) => (iter.drainDone /\ iter.pending = 0)
    /\ (loc = "poll") => (~iter.drainDone /\ iter.instrs = 0 /\ iter.timers = 0)
    /\ Ticked =>
          /\ hist.prekeys = iter.keys
          /\ (Opcode(hist.instruction) = 14 /\ FieldKK(hist.instruction) = 158) =>
                chip.pc = hist.pre.pc + (IF iter.keys[TestedKey] THEN 4 ELSE 2)
          /\ (Opcode(hist.instruction) = 14 /\ FieldKK(hist.instruction) = 161) =>
                chip.pc = hist.pre.pc + (IF iter.keys[TestedKey] THEN 2 ELSE 4)
          /\ (IsFx0A(hist.instruction) /\ AnyKey(iter.keys)) =>
                chip.V[LastX] = FirstHex(iter.keys)
          /\ (IsFx0A(hist.instruction) /\ ~AnyKey(iter.keys)) => chip.pc = hist.pre.pc

\* Key 1 went down in this iteration's drain, and the iteration's E0A1 did not skip.
C9_Witness ==
    /\ Ticked /\ hist.instruction = 57505
    /\ iter.drained > 0 /\ ~iter.keys0["1"] /\ iter.keys["1"]
    /\ chip.pc = hist.pre.pc + 2

\* C10: an iteration executes one instruction if the instruction cadence is due and
\* none otherwise, and ticks the timers once if the render cadence is due and not at all
\* otherwise, however long ago the last ones were; the tick restarts its cadence from
\* now, so the time a stall has lost is not made up.
C10_NoCatchUp ==
    /\ iter.instrs <= 1 /\ iter.timers <= 1
    /\ (loc \in {"render", "delay"}) =>
          /\ iter.instrs = (IF iter.cycleWas >= cycleDelay THEN 1 ELSE 0)
          /\ iter.instrs = 1 => cycleAge = 0
    /\ (loc = "delay") =>
          /\ iter.timers = (IF iter.renderWas >= renderDelay THEN 1 ELSE 0)
          /\ iter.timers = 1 => renderAge = 0

\* After a stall of two frames and more: one instruction and one timer tick.
C10_Witness ==
    /\ loc = "delay"
    /\ iter.cycleWas >= 2 * renderDelay /\ iter.renderWas >= 2 * renderDelay
    /\ iter.instrs = 1 /\ iter.timers = 1
    /\ cycleAge = 0 /\ renderAge = 0

\* C11: once a quit event has been drained, running is false for good; the iteration
\* that drained it executes at most one instruction and ticks the timers at most once;
\* the loop then exits, so no iteration is started after it: whenever run is inside an
\* iteration with the quit seen, that iteration is the one that drained it.
C11_QuitEndsRun ==
    /\ iter.quit <=> ~running
    /\ iter.quit => (iter.instrs <= 1 /\ iter.timers <= 1)
    /\ (iter.quit /\ loc \in {"poll", "cycle", "render", "delay"}) => iter.drained >= 1
    /\ (loc = "exited") => (iter.quit /\ iter.drained >= 1 /\ iter.pending = 0)

\* run has exited; its last iteration drained the quit and still executed an instruction
\* and ticked the timers.
C11_Witness ==
    /\ loc = "exited" /\ iter.quit /\ ~running
    /\ iter.instrs = 1 /\ iter.timers = 1

\* C12: SP is in 0..15 in every reachable state, whatever calls and returns the
\* program makes from SP = 0, and 00EE reads its return address from a stack slot in
\* 0..15.
C12_StackPointerInRange ==
    /\ chip.sp \in 0..(STACK_SIZE - 1)
    /\ LastIsReturn => (hist.pre.sp - 1) \in 0..(STACK_SIZE - 1)

(* ------- SpecJump: programs of jumps, calls, returns and skips --------- *)

\* 1201 (jump to an odd address), 1202, B203 (jump to 0x203 + V0), 6001, 2204, 00EE,
\* 3001 (skip if V0 = 1) and F10A (wait for a key, with none pressed).
JumpWords == {4609, 4610, 45571, 24577, 8708, 238, 12289, 61706}

InitJump ==
    \E rom \in Programs(JumpWords, ProgLen) :
        Start(load_rom(rom, PowerOn), KeysUp, MaxTicks, NoHost)

NextJump == Cycle

SpecJump == InitJump /\ [][NextJump]_vars

\* C13: the PC that fetch_instruction leaves is even, at every fetch of every program
\* started at 0x200.
C13_FetchLeavesPcEven ==
    Executed => Fetched.pc % 2 = 0

(* ------- SpecMem: programs that address memory through I and PC -------- *)

\* AFFF, AFFE, A300 (set I), F033, F155, F165 (BCD, store, load), D002 (draw two rows),
\* 1FFF (jump to the last byte of memory) and 6A7B.
MemWords == {45055, 45054, 41728, 61491, 61781, 61797, 53250, 8191, 27259}

InitMem ==
    \E rom \in Programs(MemWords, ProgLen) :
        Start(load_rom(rom, PowerOn), KeysUp, ProgLen, NoHost)

NextMem == Cycle

SpecMem == InitMem /\ [][NextMem]_vars

\* The rows a Dxyn draws from row y0 on.
DrawnRows(n, y0) == IF n < 32 - y0 THEN n ELSE 32 - y0

\* The highest address the instruction w reads or writes through I on the chip pre;
\* -1 when it makes no such access.
LastAccess(w, pre) ==
    CASE Opcode(w) = 13 ->
           pre.I + DrawnRows(FieldN(w), get_value_in_Vreg(FieldY(w), pre) % 32) - 1
      [] Opcode(w) = 15 /\ FieldKK(w) = 51 -> pre.I + 2
      [] Opcode(w) = 15 /\ FieldKK(w) \in {85, 101} -> pre.I + FieldX(w)
      [] OTHER -> 0 - 1

\* C14: no fetch and no Dxyn, Fx33, Fx55 or Fx65 touches an address at or above 4096.
C14_AccessInBounds ==
    /\ Executed =>
          /\ hist.addr + 1 < RAM_SIZE
          /\ LastAccess(hist.instruction, hist.pre) < RAM_SIZE
    /\ ~chip.oob

(* ------- SpecBcd: one Fx33, for any register, value and address -------- *)

\* Addresses for I: the start of memory, one that overlaps the instruction itself, the
\* data of DecodeChip, and the last one with I + 2 inside memory.
BcdAddrs == {0, ROM_START - 1, 768, RAM_SIZE - 3}

InitBcd ==
    \E x \in Regs, b \in Bytes, i \in BcdAddrs :
        Start(load_rom(<<15 * 4096 + x * 256 + 51>>,
                       [DecodeChip([r \in Regs |-> IF r = x THEN b ELSE r]) EXCEPT !.I = i]),
              KeysUp, 1, NoHost)

NextBcd == Cycle

SpecBcd == InitBcd /\ [][NextBcd]_vars

LastIsFx33 == Executed /\ Opcode(hist.instruction) = 15 /\ FieldKK(hist.instruction) = 51

\* C15: after Fx33 with I + 2 < 4096, the bytes at I, I+1, I+2 are decimal digits with
\* 100 * mem[I] + 10 * mem[I+1] + mem[I+2] = Vx; the registers, I and every other byte
\* of memory are as before, and so is the rest of the machine.
C15_BcdDigits ==
    (LastIsFx33 /\ hist.pre.I + 2 < RAM_SIZE) =>
        LET I == hist.pre.I
        IN /\ \A a \in I..(I + 2) : RamAt(chip.ram, a) \in 0..9
           /\ 100 * RamAt(chip.ram, I) + 10 * RamAt(chip.ram, I + 1) + RamAt(chip.ram, I + 2)
                = hist.pre.V[LastX]
           /\ chip.V = hist.pre.V
           /\ chip.I = I
           /\ \A a \in (DOMAIN chip.ram \cup DOMAIN hist.pre.ram) \ (I..(I + 2)) :
                 RamAt(chip.ram, a) = RamAt(hist.pre.ram, a)
           /\ [chip EXCEPT !.ram = hist.pre.ram] = Fetched

\* V7 = 255 stored at the top of memory: 2, 5, 5.
C15_Witness ==
    /\ LastIsFx33 /\ LastX = 7 /\ hist.pre.V[7] = 255 /\ hist.pre.I = RAM_SIZE - 3
    /\ RamAt(chip.ram, RAM_SIZE - 3) = 2
    /\ RamAt(chip.ram, RAM_SIZE - 2) = 5
    /\ RamAt(chip.ram, RAM_SIZE - 1) = 5
    /\ ~chip.oob

(* --- SpecStore: Fx55, sixteen 6r00 that zero the registers, then Fx65 --- *)

\* Fx55 6000 6100 ... 6F00 Fx65.
StoreRom(x) ==
    <<15 * 4096 + x * 256 + 85>> \o [i \in 1..16 |-> 6 * 4096 + (i - 1) * 256]
      \o <<15 * 4096 + x * 256 + 101>>

\* Register files: V[r] = r + 1, V[r] = 255 - r, and one with bytes from ByteSamples.
StoreRegs ==
    {[r \in Regs |-> r + 1], [r \in Regs |-> 255 - r]}
      \cup {[r \in Regs |-> IF r % 2 = 0 THEN a ELSE 128] : a \in ByteSamples}

\* Addresses for I: the start of memory, the data of DecodeChip, and the last one with
\* I + 15 inside memory.
StoreAddrs == {0, 768, RAM_SIZE - 16}

InitStore ==
    \E x \in Regs, v \in StoreRegs, i \in StoreAddrs :
        Start(load_rom(StoreRom(x), [DecodeChip(v) EXCEPT !.I = i]), KeysUp, 18, NoHost)

NextStore == Cycle

SpecStore == InitStore /\ [][NextStore]_vars

LastIsFx55 == Executed /\ Opcode(hist.instruction) = 15 /\ FieldKK(hist.instruction) = 85
LastIsFx65 == Executed /\ Opcode(hist.instruction) = 15 /\ FieldKK(hist.instruction) = 101

\* C16: an Fx65 executed with all registers 0, after an Fx55 with the same x and the
\* same I, I + x < 4096, leaves V0..Vx as they were at the Fx55 and Vx+1..VF at 0; and
\* neither instruction changes I.
C16_StoreLoadRoundTrip ==
    /\ (LastIsFx55 \/ LastIsFx65) => chip.I = hist.pre.I
    /\ (/\ LastIsFx65 /\ hist.store.valid
        /\ hist.store.x = LastX /\ hist.store.I = hist.pre.I
        /\ hist.pre.I + LastX < RAM_SIZE
        /\ \A r \in Regs : hist.pre.V[r] = 0) =>
          /\ \A r \in 0..LastX : chip.V[r] = hist.store.V[r]
          /\ \A r \in (LastX + 1)..15 : chip.V[r] = 0
          /\ chip.I = hist.store.I

\* FE55 ... FE65 at the top of memory: V0..VE are back at 255..241, VF is 0.
C16_Witness ==
    /\ LastIsFx65 /\ LastX = 14 /\ hist.store.valid /\ hist.store.x = 14
    /\ hist.store.V[0] = 255 /\ hist.pre.V[0] = 0 /\ chip.V[0] = 255
    /\ hist.store.V[14] = 241 /\ hist.pre.V[14] = 0 /\ chip.V[14] = 241
    /\ hist.store.V[15] = 240 /\ chip.V[15] = 0
    /\ chip.I = RAM_SIZE - 16 /\ ~chip.oob

(* ------------- SpecDraw: the same Dxyn, executed twice ----------------- *)

\* The sprite at I: fifteen rows, the first one 0xFF.
SpriteBytes == <<255, 129, 0, 60, 255, 1, 128, 24, 255, 66, 36, 0, 255, 170, 85>>

\* Values for Vx and Vy: 0, values near the right and bottom edges, and values that the
\* origin's mod 64 / mod 32 reduces.
DrawValues == {0, 29, 60, 255}

\* Displays to draw on: blank, and one with pixels lit where the sprites land.
DrawDisplays == {{}, {<<0, 0>>, <<6, 1>>, <<61, 29>>, <<63, 31>>}}

DrawChip(w, a, b, d) ==
    [PowerOn EXCEPT !.V = [r \in Regs |-> IF r = FieldX(w) THEN a
                                          ELSE IF r = FieldY(w) THEN b ELSE 9],
                    !.I = 768, !.display = d,
                    !.ram = [i \in 768..782 |-> SpriteBytes[i - 767]]]

InitDraw ==
    \E x \in Regs, y \in Regs, n \in 0..15, a \in DrawValues, b \in DrawValues,
       d \in DrawDisplays :
        LET w == 13 * 4096 + x * 256 + y * 16 + n
        IN /\ (x = y) => (a = b)
           /\ Start(load_rom(<<w, w>>, DrawChip(w, a, b, d)), KeysUp, 2, NoHost)

NextDraw == Cycle

SpecDraw == InitDraw /\ [][NextDraw]_vars

LastIsDxyn == Executed /\ Opcode(hist.instruction) = 13

\* The origin the last Dxyn drew at.
LastX0 == hist.pre.V[LastX] % 64
LastY0 == hist.pre.V[LastY] % 32

\* The last Dxyn repeats the draw before it: same origin, same rows, same I.
Redrawn ==
    /\ LastIsDxyn /\ hist.draw.valid
    /\ hist.draw.x0 = LastX0 /\ hist.draw.y0 = LastY0
    /\ hist.draw.n = FieldN(hist.instruction) /\ hist.draw.I = hist.pre.I

\* C17: a Dxyn that repeats the draw before it leaves the display as it was before the
\* first of the two; on a blank display the 1-row sprite 0xFF drawn at (0,0) lights
\* exactly (0,0)..(7,0) with VF = 0, and drawn again clears them with VF = 1.
C17_DrawTwiceRestores ==
    /\ Redrawn => chip.display = hist.draw.display
    /\ (/\ LastIsDxyn /\ FieldN(hist.instruction) = 1 /\ LastX0 = 0 /\ LastY0 = 0
        /\ hist.pre.display = {} /\ RamAt(hist.pre.ram, hist.pre.I) = 255) =>
          /\ chip.display = {<<i, 0>> : i \in 0..7}
          /\ chip.V[15] = 0
    /\ (/\ Redrawn /\ FieldN(hist.instruction) = 1 /\ LastX0 = 0 /\ LastY0 = 0
        /\ hist.draw.display = {} /\ RamAt(hist.pre.ram, hist.pre.I) = 255) =>
          /\ chip.display = {}
          /\ chip.V[15] = 1

\* D121 twice with V1 = V2 = 0 on a blank display: lit, then blank again with VF = 1.
C17_Witness ==
    /\ Redrawn /\ hist.instruction = 53537
    /\ LastX0 = 0 /\ LastY0 = 0
    /\ hist.draw.display = {} /\ hist.pre.display = {<<i, 0>> : i \in 0..7}
    /\ chip.display = {} /\ chip.V[15] = 1

\* The pixels the rows of the last Dxyn cover: rows y0 .. y0 + DrawnRows - 1, row r
\* from the byte at I + r.
LastSprite ==
    UNION {RowPixels(LastX0, LastY0 + r, RamAt(hist.pre.ram, hist.pre.I + r)) :
             r \in 0..(DrawnRows(FieldN(hist.instruction), LastY0) - 1)}

\* C18: Dxyn draws at (Vx mod 64, Vy mod 32) of the registers it started with, also for
\* x = F or y = F; it XORs min(n, 32 - y0) rows, read from I, I+1, ..., into the display,
\* and no pixel of a row >= 32 or of a row above y0; VF ends 1 if a lit pixel was
\* cleared and 0 otherwise (n = 0: VF = 0, display unchanged); I and all else are
\* unchanged.
C18_DrawRowsAndFlag ==
    LastIsDxyn =>
        /\ chip.display = (hist.pre.display \ LastSprite) \cup (LastSprite \ hist.pre.display)
        /\ chip.V[15] = (IF LastSprite \cap hist.pre.display # {} THEN 1 ELSE 0)
        /\ \A p \in chip.display : p[1] \in 0..63 /\ p[2] \in 0..31
        /\ \A p \in (chip.display \ hist.pre.display) \cup (hist.pre.display \ chip.display) :
              p[2] >= LastY0 /\ p[2] < LastY0 + FieldN(hist.instruction)
        /\ (FieldN(hist.instruction) = 0) =>
              (chip.display = hist.pre.display /\ chip.V[15] = 0)
        /\ chip.I = hist.pre.I
        /\ [chip EXCEPT !.display = hist.pre.display, !.V[15] = hist.pre.V[15]] = Fetched

\* DF15 with VF = 60 and V1 = 29: five rows asked for, three drawn from (60, 29), the
\* lit pixel (61, 29) cleared, so VF = 1.
C18_Witness ==
    /\ LastIsDxyn /\ hist.instruction = 57109
    /\ hist.pre.V[15] = 60 /\ hist.pre.V[1] = 29
    /\ <<61, 29>> \in hist.pre.display /\ <<61, 29>> \notin chip.display
    /\ <<60, 29>> \in chip.display /\ <<60, 30>> \in chip.display
    /\ \A p \in chip.display \ hist.pre.display : p[2] \in 29..30
    /\ chip.V[15] = 1

(* --- SpecScreen: w, 00E0, w for every kind of word, with ticks and keys --- *)

\* Every opcode with every low byte, on registers 0 and 1: all the decoder's cases.
ScreenWords == {op * 4096 + x * 256 + kk : op \in 0..15, x \in 0..1, kk \in Bytes}

\* A machine with a lit screen, a sprite at I, and the delay timer about to run out.
ScreenChip ==
    [DrawChip(0, 2, 2, {<<0, 0>>, <<5, 3>>, <<63, 31>>}) EXCEPT !.delay_timer = 1]

ScreenHost == [NoHost EXCEPT !.events = KeyEvents(MaxKeys)]

InitScreen ==
    \E w \in ScreenWords :
        Start(load_rom(<<w, 224, w>>, ScreenChip), KeysUp, 3, ScreenHost)

NextScreen == Cycle \/ Timers \/ KeyInput

SpecScreen == InitScreen /\ [][NextScreen]_vars

LastIs00E0 == Executed /\ hist.instruction = 224

\* C19: 00E0 leaves the display blank and changes nothing else; from then on the display
\* is blank until a Dxyn executes; an instruction other than 00E0 and Dxyn, a timer tick
\* and a key event leave the display as it was.
C19_ClearAndFrame ==
    /\ LastIs00E0 =>
          /\ chip.display = {}
          /\ [chip EXCEPT !.display = hist.pre.display] = Fetched
          /\ key_state = hist.prekeys
    /\ ghost.blank => chip.display = {}
    /\ (Executed /\ hist.instruction # 224 /\ Opcode(hist.instruction) # 13) =>
          chip.display = hist.pre.display
    /\ (hist.op \in {"timers", "event"}) => chip.display = hist.pre.display

\* 7105, 00E0, 7105 have run, the timer has run out and a key has gone down since the
\* clear: the display is still blank.
C19_Witness ==
    /\ ghost.blank /\ chip.display = {}
    /\ hist.op = "event" /\ key_state["1"]
    /\ chip.V[1] = 12 /\ chip.pc = ROM_START + 6
    /\ chip.delay_timer = 0 /\ ghost.dt.n = 1

\* C20: after 8xy6, VF is the lowest bit of the Vx the instruction started with and,
\* for x # F, Vx is that value shifted right by one; after 8xyE, VF is its highest bit
\* and, for x # F, Vx is that value shifted left by one, mod 256; for all x and y
\* (x = F included); Vy, where it is neither Vx nor VF, is unchanged.
C20_ShiftFlags ==
    /\ LastIs8xy(6) =>
          /\ chip.V[15] = hist.pre.V[LastX] % 2
          /\ (LastX # 15) => chip.V[LastX] = hist.pre.V[LastX] \div 2
    /\ LastIs8xy(14) =>
          /\ chip.V[15] = hist.pre.V[LastX] \div 128
          /\ (LastX # 15) => chip.V[LastX] = (hist.pre.V[LastX] * 2) % U8
    /\ ((LastIs8xy(6) \/ LastIs8xy(14)) /\ LastY \notin {LastX, 15}) =>
          chip.V[LastY] = hist.pre.V[LastY]

\* The last instruction skipped: it left PC two past the fetched PC.
Skipped == chip.pc = (Fetched.pc + 2) % U16

\* The last instruction is one of the skip opcodes (Ex9E / ExA1 with Vx a hex digit).
LastIsSkip ==
    /\ Executed
    /\ \/ Opcode(hist.instruction) \in {3, 4}
       \/ Opcode(hist.instruction) \in {5, 9} /\ FieldN(hist.instruction) = 0
       \/ /\ Opcode(hist.instruction) = 14 /\ FieldKK(hist.instruction) \in {158, 161}
          /\ hist.pre.V[LastX] \in 0..15

\* C21: a skip opcode leaves PC at the fetched PC or exactly 2 past it and changes
\* nothing else; and from the same state its partner (3xkk / 4xkk, 5xy0 / 9xy0,
\* Ex9E / ExA1 with the same x, y, kk) skips exactly when it does not.
C21_SkipsComplementary ==
    LET w == hist.instruction
    IN /\ LastIsSkip =>
            /\ Skipped \/ chip.pc = Fetched.pc
            /\ [chip EXCEPT !.pc = Fetched.pc] = Fetched
            /\ key_state = hist.prekeys
       /\ (LastIsSkip /\ Opcode(w) = 3) =>
            (Skipped <=> Op4xkk(Fetched, w + 4096).pc = Fetched.pc)
       /\ (LastIsSkip /\ Opcode(w) = 4) =>
            (Skipped <=> Op3xkk(Fetched, w - 4096).pc = Fetched.pc)
       /\ (LastIsSkip /\ Opcode(w) = 5) =>
            (Skipped <=> Op9xy(Fetched, w + 4 * 4096).pc = Fetched.pc)
       /\ (LastIsSkip /\ Opcode(w) = 9) =>
            (Skipped <=> Op5xy(Fetched, w - 4 * 4096).pc = Fetched.pc)
       /\ (LastIsSkip /\ Opcode(w) = 14 /\ FieldKK(w) = 158) =>
            (Skipped <=> OpExkk(Fetched, hist.prekeys, w + 3).c.pc = Fetched.pc)
       /\ (LastIsSkip /\ Opcode(w) = 14 /\ FieldKK(w) = 161) =>
            (Skipped <=> OpExkk(Fetched, hist.prekeys, w - 3).c.pc = Fetched.pc)

\* 4305 with V3 = 3: kk differs from Vx, so 4305 skipped where 3305 would not have.
C21_Witness ==
    /\ LastIsSkip /\ hist.instruction = 17157 /\ hist.pre.V[3] = 3
    /\ Skipped /\ chip.pc = ROM_START + 4
    /\ Op3xkk(Fetched, 13061).pc = ROM_START + 2

(* ---------------- the two versions of the arithmetic opcodes -------------- *)

NextTwin == Cycle \/ Old_Cycle

SpecTwin == InitAlu /\ [][NextTwin]_vars

OldExecuted == hist.op = "oldcycle"

\* The last step ran 8xy4, 8xy5, 8xy6, 8xy7 or 8xyE in either version.
LastIsTwin ==
    /\ Executed \/ OldExecuted
    /\ Opcode(hist.instruction) = 8
    /\ FieldN(hist.instruction) \in {4, 5, 6, 7, 14}

\* Where each version takes the state the last instruction was fetched in.
NewEnd == Op8xy(Fetched, hist.instruction)
OldEnd == Old_Op8xy(Fetched, hist.instruction)

\* The 8-bit result and the flag of the last instruction, from the operands it started with.
AluResult ==
    LET n == FieldN(hist.instruction)
        Vx == hist.pre.V[LastX]
        Vy == hist.pre.V[LastY]
    IN CASE n = 4 -> (Vx + Vy) % U8
         [] n = 5 -> (Vx - Vy) % U8
         [] n = 6 -> Vx \div 2
         [] n = 7 -> (Vy - Vx) % U8
         [] OTHER -> (Vx * 2) % U8

AluFlag ==
    LET n == FieldN(hist.instruction)
        Vx == hist.pre.V[LastX]
        Vy == hist.pre.V[LastY]
    IN CASE n = 4 -> IF Vx + Vy > 255 THEN 1 ELSE 0
         [] n = 5 -> IF Vx > Vy THEN 1 ELSE 0
         [] n = 6 -> Vx % 2
         [] n = 7 -> IF Vy > Vx THEN 1 ELSE 0
         [] OTHER -> Vx \div 128

\* C22 (as amended): the two versions of perform_instruction write the flag and the
\* destination register in opposite orders for 8xy4, 8xy5, 8xy7 and 8xyE (chip8.cpp the
\* register then the flag, part_000 the flag then the register) and in the same order,
\* flag first, for 8xy6.  From the same state they end in identical V0..VF whenever
\* x # F; 8xy6 ends identically for every x; and for 8xy4, 8xy5, 8xy7 and 8xyE with x = F
\* chip8.cpp ends with VF the flag and part_000 with VF the 8-bit result, the other
\* registers alike, so VF differs exactly when the result is not the flag.
C22_WriteOrders ==
    LastIsTwin =>
        /\ chip = IF Executed THEN NewEnd ELSE OldEnd
        /\ (LastX # 15) => OldEnd.V = NewEnd.V
        /\ (FieldN(hist.instruction) = 6) => OldEnd = NewEnd
        /\ (LastX = 15 /\ FieldN(hist.instruction) # 6) =>
              /\ NewEnd.V[15] = AluResult
              /\ OldEnd.V[15] = AluFlag
              /\ \A r \in 0..14 : NewEnd.V[r] = OldEnd.V[r]

\* chip8.cpp has run 8F14 on VF = 255, V1 = 1 and ends with VF = 1 where part_000 ends
\* with VF = 0.
C22_Witness ==
    /\ LastIsTwin
    /\ OldExecuted
    /\ hist.instruction = 36628
    /\ hist.pre.V[15] = 255
    /\ hist.pre.V[1] = 1
    /\ chip.V[15] = 1
    /\ NewEnd.V[15] = 0

\* C22 as stated: opposite orders for each of the five opcodes, 8xy6 included, so that with
\* x = F chip8.cpp ends with VF the flag and part_000 with VF the result.
C22_OppositeOrders ==
    (LastIsTwin /\ LastX = 15) =>
        /\ OldEnd.V[15] = AluFlag
        /\ NewEnd.V[15] = AluResult

(* ------------------- call and return in chip8.cpp ------------------------ *)

NextOld == Old_Cycle

SpecOld == InitCall /\ [][NextOld]_vars

\* C23: in the perform_instruction of chip8.cpp, a 2nnn executed with SP < 15 and then,
\* with no call or return in between, a 00EE leave PC at the address following the 2nnn
\* and SP at its value before the call; and neither 00E0 nor 00EE leaves PC at the low
\* 12 bits of its own instruction word.
C23_OldReturn ==
    /\ (OldExecuted /\ hist.instruction = 238 /\ hist.call.valid) =>
          /\ chip.pc = hist.call.ret
          /\ chip.sp = hist.call.sp
    /\ (OldExecuted /\ hist.instruction \in {224, 238}) =>
          chip.pc # FieldNNN(hist.instruction)

(* ------------------------------ the keypad ------------------------------- *)

\* E09E, E0A1 and F00A.
PadWords == {57502, 57505, 61450}

\* V0 in the keypad runs: a hex digit and a value that is none.
PadValues == {3, 16}

\* The host delivers key-down and key-up of one host key, mapped or not.
PadHost(key) == [NoHost EXCEPT !.events = {[type |-> t, key |-> key] : t \in {"down", "up"}}]

InitPad ==
    \E w \in PadWords, v \in PadValues, keys \in KeySets(MaxPressed), key \in HostKeys :
        Start(load_rom(<<w, w>>, [PowerOn EXCEPT !.V[0] = v]), keys, PadSteps, PadHost(key))

NextPad == KeyInput \/ Cycle

SpecPad == InitPad /\ [][NextPad]_vars

\* What event e is to do to the key state: a mapped key's flag becomes true on key-down
\* and false on key-up, every other flag stays; an unmapped key changes nothing.
KeyEffect(before, after, e) ==
    /\ DOMAIN after = DOMAIN before
    /\ IF e.key \in KeyNames
       THEN /\ after[e.key] = (e.type = "down")
            /\ \A k \in DOMAIN before \ {e.key} : after[k] = before[k]
       ELSE after = before

IsKeyOp(instruction) ==
    \/ Opcode(instruction) = 14 /\ FieldKK(instruction) \in {158, 161}
    \/ Opcode(instruction) = 15 /\ FieldKK(instruction) = 10

\* A step of the keypad: an event does what KeyEffect says, and Ex9E, ExA1 and Fx0A leave
\* every flag as it was.
PadStep ==
    /\ (hist'.op = "event") =>
          \A e \in host.events :
              (key_state' = ApplyEvent(key_state, e)) => KeyEffect(key_state, key_state', e)
    /\ (hist'.op = "cycle" /\ IsKeyOp(hist'.instruction)) =>
          \A k \in DOMAIN key_state : key_state'[k] = key_state[k]

\* C24: handle_key_down(k) for one of the 16 mapped host keys sets exactly that key's flag
\* to true and handle_key_up(k) sets exactly it to false, the other 15 flags unchanged; an
\* unmapped host key changes no flag; as long as only key-down and key-up events have
\* happened the key state has exactly the 16 entries it starts with; and Ex9E, ExA1 and
\* Fx0A never change a flag.
C24_KeyFlags ==
    /\ [][PadStep]_vars
    /\ [](budget = PadSteps => DOMAIN key_state = KeyNames)
    /\ [](KeyNames \subseteq DOMAIN key_state)

\* A key-down of Q has set Q's flag, which was clear, and left the other fifteen alone.
C24_Witness ==
    /\ hist.op = "event"
    /\ budget = PadSteps
    /\ [type |-> "down", key |-> "Q"] \in host.events
    /\ ~hist.prekeys["Q"]
    /\ key_state["Q"]
    /\ \A k \in KeyNames \ {"Q"} : key_state[k] = hist.prekeys[k]
    /\ \E k \in KeyNames \ {"Q"} : key_state[k]

(* ------------------- hex digits, host keys and the scan ------------------ *)

\* The keys that are down.
Pressed(keys) == {k \in DOMAIN keys : keys[k]}

\* Ex9E (low = 158) or ExA1 (low = 161) on register x holding h, run from the present
\* state: does it skip?
SkipsOn(x, h, low) ==
    LET c == [chip EXCEPT !.V[x] = h]
    IN OpExkk(c, key_state, 14 * 4096 + x * 256 + low).c.pc = (c.pc + 2) % U16

\* C25: the mapping from hex digits to host keys is a bijection from 0x0..0xF onto the 16
\* tracked keys, and it agrees with the scan of Fx0A: when exactly one key is pressed and
\* Fx0A has stored h in Vx, Ex9E with Vx = h skips, ExA1 with Vx = h does not, and Ex9E
\* with Vx = h' does not skip for any other h' in 0..F.
C25_DigitsAndKeys ==
    /\ {get_key_from_u8(h) : h \in 0..15} = DOMAIN key_state
    /\ \A h1 \in 0..15, h2 \in 0..15 :
          (get_key_from_u8(h1) = get_key_from_u8(h2)) => h1 = h2
    /\ Cardinality(DOMAIN key_state) = 16
    /\ (Executed /\ IsFx0A(hist.instruction) /\ Cardinality(Pressed(hist.prekeys)) = 1) =>
          /\ chip.V[LastX] \in 0..15
          /\ Pressed(key_state) = {get_key_from_u8(chip.V[LastX])}
          /\ SkipsOn(LastX, chip.V[LastX], 158)
          /\ ~SkipsOn(LastX, chip.V[LastX], 161)
          /\ \A h \in 0..15 \ {chip.V[LastX]} : ~SkipsOn(LastX, h, 158)

\* Only the host key "4" is down: F30A has stored 0xC in V3, on which E39E skips and
\* E3A1 does not.
C25_Witness ==
    /\ Executed /\ hist.instruction = 62218
    /\ Pressed(hist.prekeys) = {"4"}
    /\ chip.V[3] = 12
    /\ SkipsOn(3, 12, 158)
    /\ ~SkipsOn(3, 12, 161)
    /\ ~SkipsOn(3, 4, 158)

====
